---- MODULE Spec2Model ----
(***************************************************************************)
(* Hill-climbing and simulated annealing on a sliding-tile board           *)
(* (src/main.go): boards, neighbour generation, the two searches, and the  *)
(* orchestrators that launch n concurrent trials and tabulate a histogram. *)
(*                                                                         *)
(* A board is a record [size, state]; state is a sequence of rows, each a  *)
(* sequence of tile values.  Rows and columns are numbered from 1 here     *)
(* (from 0 in the Go code); tile values are the code's own (0 = blank).    *)
(***************************************************************************)
EXTENDS Integers, Sequences, FiniteSets, TLC

VARIABLES
    experiment,  \* "HC" (RunHillClimb) or "SA" (RunSimAnneal)
    size,        \* the orchestrator's local `size`
    n,           \* the orchestrator's local `n` (number of trials)
    b1,          \* the target board (NewBoard(size))
    params,      \* the SimulatedAnnealParams shared by the trials
    ch,          \* buffer of the results channel, oldest first (capacity n)
    diffs,       \* the histogram map
    launched,    \* index of the launch loop (goroutines started so far)
    received,    \* index of the drain loop (values received so far)
    trials,      \* the goroutines: trial id -> locals of MinDiffHC / MinDiffSA
    call,        \* the last call of a function made on its own, or NoCall
    mem          \* boards as the Go heap holds them: arrays, and boards whose
                 \* rows are slices of arrays, with the pointers of one search

vars ==
    <<experiment, size, n, b1, params, ch, diffs, launched, received, trials,
      call, mem>>

----------------------------------------------------------------------------
(* Bounds of the model. *)

\* number of trials an orchestrator launches (5000000 and 100 in the code)
NTrials == 2

\* inner-loop iterations per temperature level (1000 in the code)
MaxIterations == 2

\* temperature levels before t falls to tMin (about 2500 in the code)
MaxLevels == 2

\* the cooling schedule of the orchestrated runs, scaled down from the
\* code's (tMin = 1e-11, alpha = 0.99, 1000 iterations): temperature levels
\* and iterations per level
RunSchedule == [levels |-> 1, iterations |-> 2]

\* the orders of the pieces the random source yields in the orchestrated
\* runs: the goal, a board one move from the goal, a board that is a local
\* minimum away from the goal, and the only board of size 1
SamplePieces ==
    {<<0>>, <<0, 1, 2, 3>>, <<1, 0, 2, 3>>, <<0, 2, 1, 3>>}

\* largest diff given to AcceptCandidate when it is called on its own
MaxDiff == 3

\* steps taken on the heap model of the boards
MaxHeapSteps == 3

\* board sizes of the single-trial hill-climb runs (the code's size is 3)
Sizes == 1..3

\* board sizes of the simulated-annealing runs
SmallSizes == 1..2

----------------------------------------------------------------------------
(* Board *)

\* the nil *Board
Nil == [size |-> -1, state |-> <<>>]

Cells(s) == (1..s) \X (1..s)

NewBoard(s) ==
    [size |-> s,
     state |-> [i \in 1..s |-> [j \in 1..s |-> ((i - 1) * s) + (j - 1)]]]

\* all slices rand.Perm(k) can return: the orders of 0..k-1
Perm(k) ==
    {[j \in 1..k |-> f[j - 1]] : f \in Permutations(0..(k - 1))}

\* the board NewBoardRand builds from the permutation `pieces`
NewBoardRand(s, pieces) ==
    [size |-> s,
     state |-> [i \in 1..s |-> [j \in 1..s |-> pieces[((i - 1) * s) + j]]]]

\* every board NewBoardRand(s) can return
AllBoards(s) == {NewBoardRand(s, pieces) : pieces \in Perm(s * s)}

\* the boards NewBoardRand(s) returns for the sampled orders
SampleBoards(s) ==
    {NewBoardRand(s, pieces) : pieces \in {q \in SamplePieces : Len(q) = s * s}}

Copy(b) ==
    [size |-> b.size,
     state |-> [i \in 1..b.size |-> [j \in 1..b.size |-> b.state[i][j]]]]

\* mutant: the blank is counted like any other tile
DiffNCountsBlank(b, target) ==
    Cardinality({c \in Cells(b.size) :
                    b.state[c[1]][c[2]] # target.state[c[1]][c[2]]})

\* DiffN skipping every cell where either board holds the blank
DiffNSkipsBlanks(b, target) ==
    Cardinality({c \in Cells(b.size) :
                    /\ b.state[c[1]][c[2]] # 0
                    /\ target.state[c[1]][c[2]] # 0
                    /\ b.state[c[1]][c[2]] # target.state[c[1]][c[2]]})

\* DiffN with the size check only refusing a receiver larger than the target
DiffNPanicsLarger(b, target) == b = Nil \/ b.size > target.size

\* DiffN panics: nil receiver (b.size dereferences it) or the size check
DiffNPanics(b, target) == b = Nil \/ b.size # target.size

DiffN(b, target) ==
    Cardinality({c \in Cells(b.size) :
                    /\ b.state[c[1]][c[2]] # 0
                    /\ b.state[c[1]][c[2]] # target.state[c[1]][c[2]]})

\* <<i, j, ok>>: the first cell, in row-major order, holding x
tileIndx(b, x) ==
    LET hits == {c \in Cells(b.size) : b.state[c[1]][c[2]] = x}
    IN  IF hits = {} THEN <<-1, -1, FALSE>>
        ELSE LET c == CHOOSE c \in hits :
                        \A d \in hits : \/ c[1] < d[1]
                                        \/ (c[1] = d[1] /\ c[2] <= d[2])
             IN  <<c[1], c[2], TRUE>>

\* a copy of b with cells (i, j) and (k, l) exchanged
Swapped(b, i, j, k, l) ==
    LET c == Copy(b)
    IN  [c EXCEPT !.state[i][j] = b.state[k][l], !.state[k][l] = b.state[i][j]]

\* mutant: the bound test of the move up is off by one (i-1 > 0)
FindNeighborsUpStrict(b, x) ==
    LET idx == tileIndx(b, x)
        i == idx[1]
        j == idx[2]
    IN  IF ~idx[3] THEN <<>>
        ELSE (IF i - 1 > 1 THEN <<Swapped(b, i, j, i - 1, j)>> ELSE <<>>)
          \o (IF i + 1 <= b.size THEN <<Swapped(b, i, j, i + 1, j)>> ELSE <<>>)
          \o (IF j - 1 >= 1 THEN <<Swapped(b, i, j, i, j - 1)>> ELSE <<>>)
          \o (IF j + 1 <= b.size THEN <<Swapped(b, i, j, i, j + 1)>> ELSE <<>>)

\* the neighbours in the order up, down, left, right; <<>> is the nil slice
FindNeighbors(b, x) ==
    LET idx == tileIndx(b, x)
        i == idx[1]
        j == idx[2]
    IN  IF ~idx[3] THEN <<>>
        ELSE (IF i - 1 >= 1 THEN <<Swapped(b, i, j, i - 1, j)>> ELSE <<>>)
          \o (IF i + 1 <= b.size THEN <<Swapped(b, i, j, i + 1, j)>> ELSE <<>>)
          \o (IF j - 1 >= 1 THEN <<Swapped(b, i, j, i, j - 1)>> ELSE <<>>)
          \o (IF j + 1 <= b.size THEN <<Swapped(b, i, j, i, j + 1)>> ELSE <<>>)

\* the boards FindNeighborRand can return: any neighbour, or nil if none
FindNeighborRand(b, x) ==
    LET ns == FindNeighbors(b, x)
    IN  IF ns = <<>> THEN {Nil} ELSE {ns[k] : k \in 1..Len(ns)}

----------------------------------------------------------------------------
(* Hill climbing: MinDiffHC *)

MaxInt32 == 2147483647

\* mutant: the climb goes on when the best candidate is only as good
HCStopsStrict(h, currentH) == h > currentH

\* mutant: a candidate is taken over without comparing it
HCBetterAlways(diff, h) == TRUE

\* the comparison with ties going to the later candidate
HCBetterOrEqual(diff, h) == diff <= h

\* the comparison that replaces the best candidate seen so far
HCBetter(diff, h) == diff < h

\* the scan over the candidates, from candidate k on; best = [nextBoard, h]
RECURSIVE HCScan(_, _, _, _)
HCScan(candidates, target, k, best) ==
    IF k > Len(candidates) THEN best
    ELSE LET c == candidates[k]
             diff == DiffN(c, target)
         IN  HCScan(candidates, target, k + 1,
                    IF HCBetter(diff, best.h)
                    THEN [nextBoard |-> c, h |-> diff]
                    ELSE best)

\* the test that ends the climb
HCStops(h, currentH) == h >= currentH

----------------------------------------------------------------------------
(* Simulated annealing: AcceptCandidate and MinDiffSA *)

(* Temperatures are exact rationals <<numerator, denominator>>, with a     *)
(* positive denominator.  A draw of rand.Float64() is named by its         *)
(* negative logarithm: the draw <<a, b>> is the number exp(-a/b), and      *)
(* <<a, 0>> is the draw 0.  So a draw r is below exp(-d/temp) exactly when *)
(* a/b > d/temp, which integers decide.                                    *)

RatGT(x, y) == x[1] * y[2] > y[1] * x[2]

RatMul(x, y) == <<x[1] * y[1], x[2] * y[2]>>

\* rand.Float64() < math.Exp(-d / temp), for the draw r, d >= 0 and temp > 0
DrawBelowExp(r, d, temp) == r[1] * temp[1] > d * r[2] * temp[2]

\* mutant: an equal candidate is accepted like a lower one
AcceptCandidateLoose(current, candidate, temp, r) ==
    IF candidate <= current THEN TRUE
    ELSE IF temp[1] = 0 THEN FALSE
    ELSE DrawBelowExp(r, candidate - current, temp)

AcceptCandidate(current, candidate, temp, r) ==
    IF candidate < current THEN TRUE
    ELSE IF temp[1] = 0 THEN FALSE
    ELSE DrawBelowExp(r, candidate - current, temp)

\* the draws of rand.Float64() the model tries: exp(-1/2), exp(-2) and 0
Draws == {<<1, 2>>, <<2, 1>>, <<1, 0>>}

\* the update with the comparison reversed
MinUpdateReversed(minDiff, candidateDiff) ==
    IF candidateDiff > minDiff THEN candidateDiff ELSE minDiff

\* the running minimum after seeing candidateDiff
MinUpdate(minDiff, candidateDiff) ==
    IF candidateDiff < minDiff THEN candidateDiff ELSE minDiff

\* mutant: the running minimum is emitted also when it equals the final diff
EmitsMinLoose(minDiff, currentDiff) == minDiff <= currentDiff

\* whether the running minimum is emitted before the final diff
EmitsMin(minDiff, currentDiff) == minDiff < currentDiff

----------------------------------------------------------------------------
(* The goroutines *)

\* a trial that has not been launched; `seen` records the diffs MinDiffSA has
\* computed so far, of its start board and of every candidate
Idle ==
    [pc |-> "idle", b |-> Nil, currentBoard |-> Nil, currentDiff |-> 0,
     minDiff |-> 0, t |-> <<1, 1>>, i |-> 0, moves |-> 0,
     sent |-> <<>>, counted |-> 0, seen |-> {}]

\* MinDiffHC on entry
HCStart(b) == [Idle EXCEPT !.pc = "hc", !.b = b, !.currentBoard = b]

\* where MinDiffSA goes from the head of its outer loop
SALoopHead(tr, p) ==
    IF RatGT(tr.t, p.TemperatureMin) THEN [tr EXCEPT !.pc = "sa", !.i = 0]
    ELSE [tr EXCEPT !.pc = IF EmitsMin(tr.minDiff, tr.currentDiff)
                         THEN "sendMin" ELSE "sendCur"]

\* MinDiffSA from entry to the head of its outer loop
SAStart(b, p) ==
    IF DiffNPanics(b, p.Objective)
    THEN [Idle EXCEPT !.pc = "panic", !.b = b, !.currentBoard = b]
    ELSE LET currentDiff == DiffN(b, p.Objective)
         IN  SALoopHead([Idle EXCEPT !.b = b, !.currentBoard = b,
                                     !.currentDiff = currentDiff,
                                     !.t = <<1, 1>>,
                                     !.minDiff = currentDiff,
                                     !.seen = {currentDiff}], p)

\* an unrecovered panic in any goroutine ends the process
Crashed == \E id \in 1..n : trials[id].pc = "panic"

\* ch <- v by trial id (the sender is kept with the value to tell trials apart)
Send(id, v) == Append(ch, [val |-> v, from |-> id])

\* whether a send on ch can proceed: the buffer, of capacity n, has room
CanSend == Len(ch) < n

\* one iteration of the loop of MinDiffHC
HCIter(id) ==
    LET tr == trials[id] IN
    /\ ~Crashed
    /\ tr.pc = "hc"
    /\ IF DiffNPanics(tr.currentBoard, b1)
       THEN trials' = [trials EXCEPT ![id].pc = "panic"]
       ELSE LET candidates == FindNeighbors(tr.currentBoard, 0)
                best == HCScan(candidates, b1, 1,
                               [nextBoard |-> Nil, h |-> MaxInt32])
                currentH == DiffN(tr.currentBoard, b1)
            IN  IF HCStops(best.h, currentH)
                THEN trials' = [trials EXCEPT ![id].pc = "send",
                                              ![id].currentDiff = currentH]
                ELSE trials' = [trials EXCEPT
                                   ![id].currentBoard = best.nextBoard,
                                   ![id].moves = tr.moves + 1]
    /\ UNCHANGED <<mem, call, experiment, size, n, b1, params, ch, diffs, launched, received>>

\* ch <- currentH; return
HCSend(id) ==
    LET tr == trials[id] IN
    /\ ~Crashed
    /\ tr.pc = "send"
    /\ CanSend
    /\ ch' = Send(id, tr.currentDiff)
    /\ trials' = [trials EXCEPT ![id].pc = "done",
                                ![id].sent = Append(tr.sent, tr.currentDiff)]
    /\ UNCHANGED <<mem, call, experiment, size, n, b1, params, diffs, launched, received>>

\* one iteration of the inner loop of MinDiffSA
SAIter(id) ==
    LET tr == trials[id] IN
    /\ ~Crashed
    /\ tr.pc = "sa"
    /\ tr.i < params.Iterations
    /\ \E candidateBoard \in FindNeighborRand(tr.currentBoard, 0), r \in Draws :
          IF DiffNPanics(candidateBoard, params.Objective)
          THEN trials' = [trials EXCEPT ![id].pc = "panic"]
          ELSE LET candidateDiff == DiffN(candidateBoard, params.Objective)
                   accept == AcceptCandidate(tr.currentDiff, candidateDiff, tr.t, r)
               IN  trials' = [trials EXCEPT
                      ![id].minDiff = MinUpdate(tr.minDiff, candidateDiff),
                      ![id].seen = tr.seen \cup {candidateDiff},
                      ![id].currentBoard =
                          IF accept THEN candidateBoard ELSE tr.currentBoard,
                      ![id].currentDiff =
                          IF accept THEN candidateDiff ELSE tr.currentDiff,
                      ![id].i = tr.i + 1]
    /\ UNCHANGED <<mem, call, experiment, size, n, b1, params, ch, diffs, launched, received>>

\* t *= alpha, then the time check, then the head of the outer loop
SACool(id) ==
    LET tr == trials[id]
        cooled == [tr EXCEPT !.t = RatMul(tr.t, params.Alpha)]
    IN
    /\ ~Crashed
    /\ tr.pc = "sa"
    /\ tr.i >= params.Iterations
    /\ \E timeExceeded \in BOOLEAN :
          trials' = [trials EXCEPT ![id] =
              IF timeExceeded
              THEN [cooled EXCEPT !.pc = IF EmitsMin(tr.minDiff, tr.currentDiff)
                                         THEN "sendMin" ELSE "sendCur"]
              ELSE SALoopHead(cooled, params)]
    /\ UNCHANGED <<mem, call, experiment, size, n, b1, params, ch, diffs, launched, received>>

\* ch <- minDiff
SASendMin(id) ==
    LET tr == trials[id] IN
    /\ ~Crashed
    /\ tr.pc = "sendMin"
    /\ CanSend
    /\ ch' = Send(id, tr.minDiff)
    /\ trials' = [trials EXCEPT ![id].pc = "sendCur",
                                ![id].sent = Append(tr.sent, tr.minDiff)]
    /\ UNCHANGED <<mem, call, experiment, size, n, b1, params, diffs, launched, received>>

\* ch <- currentDiff; return
SASendCur(id) ==
    LET tr == trials[id] IN
    /\ ~Crashed
    /\ tr.pc = "sendCur"
    /\ CanSend
    /\ ch' = Send(id, tr.currentDiff)
    /\ trials' = [trials EXCEPT ![id].pc = "done",
                                ![id].sent = Append(tr.sent, tr.currentDiff)]
    /\ UNCHANGED <<mem, call, experiment, size, n, b1, params, diffs, launched, received>>

----------------------------------------------------------------------------
(* The orchestrators: RunHillClimb and RunSimAnneal *)

\* mutant: the bucket is set to 1 rather than incremented
MapIncSet(d, m) == [k \in DOMAIN d \cup {m} |-> IF k = m THEN 1 ELSE d[k]]

\* diffs[m]++ on a Go map: a missing key counts from 0
MapInc(d, m) ==
    IF m \in DOMAIN d THEN [d EXCEPT ![m] = d[m] + 1]
    ELSE [k \in DOMAIN d \cup {m} |-> IF k = m THEN 1 ELSE d[k]]

\* b2 := NewBoardRand(size); go b2.MinDiffHC(b1, ch)  /  go b2.MinDiffSA(&params, ch)
\* (b2 is drawn from `boards`, the boards the random source may yield)
Launch(boards) ==
    /\ ~Crashed
    /\ launched < n
    /\ launched' = launched + 1
    /\ \E b2 \in boards :
          trials' = [trials EXCEPT ![launched + 1] =
                        IF experiment = "HC" THEN HCStart(b2)
                        ELSE SAStart(b2, params)]
    /\ UNCHANGED <<mem, call, experiment, size, n, b1, params, ch, diffs, received>>

\* m := <-ch; diffs[m]++
Receive ==
    /\ ~Crashed
    /\ launched = n
    /\ received < n
    /\ ch # <<>>
    /\ LET m == Head(ch) IN
          /\ diffs' = MapInc(diffs, m.val)
          /\ trials' = [trials EXCEPT ![m.from].counted = @ + 1]
    /\ ch' = Tail(ch)
    /\ received' = received + 1
    /\ UNCHANGED <<mem, call, experiment, size, n, b1, params, launched>>

\* main returns once RunSimAnneal, its last call, has drained n values and
\* printed: the process exits without waiting for the trial goroutines, and
\* those that have not returned end where they are
Exit ==
    /\ ~Crashed
    /\ experiment = "SA"
    /\ launched = n
    /\ received = n
    /\ \E id \in 1..n : trials[id].pc \notin {"done", "killed"}
    /\ trials' = [id \in 1..n |->
                    IF trials[id].pc = "done" THEN trials[id]
                    ELSE [trials[id] EXCEPT !.pc = "killed"]]
    /\ UNCHANGED <<mem, call, experiment, size, n, b1, params, ch, diffs,
                   launched, received>>

\* the parameters RunSimAnneal builds, with the cooling schedule scaled down:
\* alpha = 1/2 and tMin = 1/2^levels give `levels` temperature levels
SAParams(objective, levels, iterations) ==
    [Objective |-> objective,
     TemperatureMin |-> <<1, 2 ^ levels>>,
     Alpha |-> <<1, 2>>,
     Iterations |-> iterations]

----------------------------------------------------------------------------
(* Boards on the heap.  A board of the code is a pointer to a struct whose *)
(* state is a slice of row slices; a row slice is a window [a, off] on an  *)
(* array: row cell j is arrays[a][off + j].  Pointers and array addresses  *)
(* are indices into mem.boards and mem.arrays; 0 is nil.  The operations   *)
(* that allocate return [h, p]: the heap after the call and the pointer.   *)

EmptyHeap ==
    [arrays |-> <<>>, boards |-> <<>>, target |-> 0, start |-> 0,
     current |-> 0, scratch |-> 0, scratchOf |-> 0, steps |-> 0]

\* b.state[i][j] for the board at p
At(h, p, i, j) ==
    h.arrays[h.boards[p].state[i].a][h.boards[p].state[i].off + j]

\* b.state[i][j] = v for the board at p
Put(h, p, i, j, v) ==
    [h EXCEPT !.arrays[h.boards[p].state[i].a][h.boards[p].state[i].off + j] = v]

\* the contents of the board at p, as a board value
View(h, p) ==
    [size |-> h.boards[p].size,
     state |-> [i \in 1..h.boards[p].size |->
                   [j \in 1..h.boards[p].size |-> At(h, p, i, j)]]]

\* NewBoard: one fresh array per row
HeapNewBoard(h, s) ==
    [h |-> [h EXCEPT
              !.arrays = @ \o [i \in 1..s |->
                                 [j \in 1..s |-> ((i - 1) * s) + (j - 1)]],
              !.boards = Append(@, [size |-> s,
                                    state |-> [i \in 1..s |->
                                        [a |-> Len(h.arrays) + i, off |-> 0]]])],
     p |-> Len(h.boards) + 1]

\* NewBoardRand: every row is a slice of the one array `pieces`
HeapNewBoardRand(h, s, pieces) ==
    [h |-> [h EXCEPT
              !.arrays = Append(@, pieces),
              !.boards = Append(@, [size |-> s,
                                    state |-> [i \in 1..s |->
                                        [a |-> Len(h.arrays) + 1,
                                         off |-> (i - 1) * s]]])],
     p |-> Len(h.boards) + 1]

\* a copy whose rows are the receiver's own row slices
HeapCopyShallow(h, p) ==
    [h |-> [h EXCEPT !.boards = Append(@, h.boards[p])],
     p |-> Len(h.boards) + 1]

\* Copy: a fresh array per row, filled from the receiver's row
HeapCopy(h, p) ==
    LET s == h.boards[p].size IN
    [h |-> [h EXCEPT
              !.arrays = @ \o [i \in 1..s |-> [j \in 1..s |-> At(h, p, i, j)]],
              !.boards = Append(@, [size |-> s,
                                    state |-> [i \in 1..s |->
                                        [a |-> Len(h.arrays) + i, off |-> 0]]])],
     p |-> Len(h.boards) + 1]

\* c := b.Copy(); c.state[i][j], c.state[k][l] = b.state[k][l], b.state[i][j]
\* (both right-hand sides are read before either cell is written)
HeapSwapped(h, p, i, j, k, l) ==
    LET c == HeapCopy(h, p)
        v1 == At(c.h, p, k, l)
        v2 == At(c.h, p, i, j)
    IN  [h |-> Put(Put(c.h, c.p, i, j, v1), c.p, k, l, v2), p |-> c.p]

\* the cells up, down, left and right of (i, j) that are on a board of size s
Adjacent(i, j, s) ==
    SelectSeq(<<<<i - 1, j>>, <<i + 1, j>>, <<i, j - 1>>, <<i, j + 1>>>>,
              LAMBDA c : c[1] >= 1 /\ c[1] <= s /\ c[2] >= 1 /\ c[2] <= s)

\* the appends of FindNeighbors from the k-th in-bounds direction on;
\* [h, ns]: the heap and the slice of pointers built so far
RECURSIVE HeapNeighbors(_, _, _, _, _, _, _)
HeapNeighbors(h, p, i, j, cells, k, ns) ==
    IF k > Len(cells) THEN [h |-> h, ns |-> ns]
    ELSE LET c == HeapSwapped(h, p, i, j, cells[k][1], cells[k][2])
         IN  HeapNeighbors(c.h, p, i, j, cells, k + 1, Append(ns, c.p))

\* FindNeighbors on the board at p
HeapFindNeighbors(h, p, x) ==
    LET idx == tileIndx(View(h, p), x) IN
    IF ~idx[3] THEN [h |-> h, ns |-> <<>>]
    ELSE HeapNeighbors(h, p, idx[1], idx[2],
                       Adjacent(idx[1], idx[2], h.boards[p].size), 1, <<>>)

\* b1 := NewBoard(size); b2 := NewBoardRand(size); the search starts on b2
HeapSetup ==
    /\ mem = EmptyHeap
    /\ \E s \in SmallSizes :
          \E pieces \in Perm(s * s) :
             LET t == HeapNewBoard(mem, s)
                 b == HeapNewBoardRand(t.h, s, pieces)
             IN  mem' = [b.h EXCEPT !.target = t.p, !.start = b.p,
                                    !.current = b.p]
    /\ UNCHANGED <<experiment, size, n, b1, params, ch, diffs, launched,
                   received, trials, call>>

\* one iteration of the loop of MinDiffHC that moves; the iteration that
\* stops leaves the heap's live boards as they are
HeapHCIter ==
    /\ mem.target # 0
    /\ mem.steps < MaxHeapSteps
    /\ LET f == HeapFindNeighbors(mem, mem.current, 0)
           target == View(f.h, mem.target)
           best == HCScan([k \in 1..Len(f.ns) |-> View(f.h, f.ns[k])],
                          target, 1, [nextBoard |-> Nil, h |-> MaxInt32])
           currentH == DiffN(View(f.h, mem.current), target)
       IN  /\ ~HCStops(best.h, currentH)
           /\ \E k \in 1..Len(f.ns) :
                 /\ View(f.h, f.ns[k]) = best.nextBoard
                 /\ mem' = [f.h EXCEPT !.current = f.ns[k],
                                       !.steps = @ + 1]
    /\ UNCHANGED <<experiment, size, n, b1, params, ch, diffs, launched,
                   received, trials, call>>

\* one iteration of the inner loop of MinDiffSA at temperature 1, on a board
\* that has neighbours
HeapSAIter ==
    /\ mem.target # 0
    /\ mem.steps < MaxHeapSteps
    /\ LET f == HeapFindNeighbors(mem, mem.current, 0)
           target == View(f.h, mem.target)
           currentDiff == DiffN(View(f.h, mem.current), target)
       IN  \E k \in 1..Len(f.ns), r \in Draws :
              LET candidateDiff == DiffN(View(f.h, f.ns[k]), target) IN
              mem' = [f.h EXCEPT
                        !.current =
                            IF AcceptCandidate(currentDiff, candidateDiff,
                                               <<1, 1>>, r)
                            THEN f.ns[k] ELSE @,
                        !.steps = @ + 1]
    /\ UNCHANGED <<experiment, size, n, b1, params, ch, diffs, launched,
                   received, trials, call>>

\* c := b.Copy() by a caller, b being any board the search holds
HeapCopyCall ==
    /\ mem.target # 0
    /\ mem.steps < MaxHeapSteps
    /\ \E p \in {mem.target, mem.start, mem.current} :
          LET c == HeapCopy(mem, p) IN
          mem' = [c.h EXCEPT !.scratch = c.p, !.scratchOf = p,
                             !.steps = @ + 1]
    /\ UNCHANGED <<experiment, size, n, b1, params, ch, diffs, launched,
                   received, trials, call>>

\* c.state[i][j] = v by the caller that holds the copy c: the cell is set to
\* a value other than the one it holds
HeapWrite ==
    /\ mem.scratch # 0
    /\ mem.steps < MaxHeapSteps
    /\ \E c \in Cells(mem.boards[mem.scratch].size) :
          LET s == mem.boards[mem.scratch].size
              v == (At(mem, mem.scratch, c[1], c[2]) + 1) % (s * s + 1)
          IN  mem' = [Put(mem, mem.scratch, c[1], c[2], v)
                         EXCEPT !.steps = @ + 1]
    /\ UNCHANGED <<experiment, size, n, b1, params, ch, diffs, launched,
                   received, trials, call>>

NoCall == [fn |-> "none"]

\* the state of an orchestrator before its launch loop
InitRun(e, s, k, p) ==
    /\ experiment = e
    /\ size = s
    /\ n = k
    /\ b1 = NewBoard(s)
    /\ params = p
    /\ ch = <<>>
    /\ diffs = [v \in 0..(s * s - 1) |-> 0]
    /\ launched = 0
    /\ received = 0
    /\ trials = [id \in 1..k |-> Idle]
    /\ call = NoCall
    /\ mem = EmptyHeap

----------------------------------------------------------------------------
(* Specifications *)

\* both orchestrators, with NTrials concurrent trials on the small boards
Init ==
    \E e \in {"HC", "SA"}, s \in SmallSizes :
        InitRun(e, s, NTrials,
                SAParams(NewBoard(s), RunSchedule.levels, RunSchedule.iterations))

Next ==
    \/ Launch(SampleBoards(size))
    \/ \E id \in 1..n : HCIter(id)
    \/ \E id \in 1..n : HCSend(id)
    \/ \E id \in 1..n : SAIter(id)
    \/ \E id \in 1..n : SACool(id)
    \/ \E id \in 1..n : SASendMin(id)
    \/ \E id \in 1..n : SASendCur(id)
    \/ Receive
    \/ Exit

Spec == Init /\ [][Next]_vars

\* one trial alone (n = 1): a hill climb from every board of every size in
\* Sizes, or an annealing from every board of every size in SmallSizes under
\* every cooling schedule up to MaxLevels levels of MaxIterations iterations
InitTrial ==
    \/ \E s \in Sizes : InitRun("HC", s, 1, SAParams(NewBoard(s), 0, 0))
    \/ \E s \in SmallSizes, l \in 0..MaxLevels, it \in 0..MaxIterations :
          InitRun("SA", s, 1, SAParams(NewBoard(s), l, it))

NextTrial ==
    \/ Launch(AllBoards(size))
    \/ \E id \in 1..n : HCIter(id)
    \/ \E id \in 1..n : HCSend(id)
    \/ \E id \in 1..n : SAIter(id)
    \/ \E id \in 1..n : SACool(id)
    \/ \E id \in 1..n : SASendMin(id)
    \/ \E id \in 1..n : SASendCur(id)
    \/ Receive
    \/ Exit

SpecTrial == InitTrial /\ [][NextTrial]_vars

\* AcceptCandidate on its own, on every input up to MaxDiff and AcceptTemps
AcceptTemps == {<<0, 1>>, <<1, 4>>, <<1, 2>>, <<1, 1>>}

CallAccept ==
    /\ \E current \in 0..MaxDiff, candidate \in 0..MaxDiff,
          temp \in AcceptTemps, r \in Draws :
          call' = [fn |-> "AcceptCandidate", current |-> current,
                   candidate |-> candidate, temp |-> temp, r |-> r,
                   result |-> AcceptCandidate(current, candidate, temp, r)]
    /\ UNCHANGED <<mem, experiment, size, n, b1, params, ch, diffs, launched,
                   received, trials>>

InitAccept == InitRun("SA", 1, 1, SAParams(NewBoard(1), 0, 0))

NextAccept == CallAccept

SpecAccept == InitAccept /\ [][NextAccept]_vars

----------------------------------------------------------------------------
(* Claims *)

\* the trials that have been launched and have not panicked
Running == {id \in 1..n : trials[id].pc \notin {"idle", "panic"}}

\* the boards one swap of the blank away from b
BlankMoves(b) == {FindNeighbors(b, 0)[k] : k \in 1..Len(FindNeighbors(b, 0))}

\* C1: a hill climb never makes more than size*size moves, from any start
\* board, although no step of MinDiffHC caps the number of moves
C1_MovesBounded ==
    experiment = "HC" =>
        \A id \in Running : trials[id].moves <= size * size

\* C1 witness: a climb on the 3x3 board that has finished after the longest
\* trajectory there is, one move per misplaced tile of its start board
C1_Witness ==
    /\ experiment = "HC"
    /\ size = 3
    /\ \E id \in Running :
          /\ trials[id].pc = "done"
          /\ trials[id].moves = 8
          /\ DiffN(trials[id].b, b1) = 8

\* C2: every move of a hill climb goes to a board whose diff against the
\* target is strictly less than the diff of the board it leaves
C2_StrictDecrease ==
    [][\A id \in 1..n :
          (/\ experiment = "HC"
           /\ trials[id].pc = "hc"
           /\ trials'[id].currentBoard # trials[id].currentBoard)
          => DiffN(trials'[id].currentBoard, b1)
                 < DiffN(trials[id].currentBoard, b1)]_vars

\* C2 witness: a climb that has made several moves and is still climbing
C2_Witness ==
    /\ experiment = "HC"
    /\ \E id \in Running :
          /\ trials[id].pc = "hc"
          /\ trials[id].moves >= 3
          /\ trials[id].currentBoard # trials[id].b

\* C3: a hill-climb trial sends nothing before it ends and exactly one value
\* when it ends, the diff of its final board, which is a local minimum: no
\* board one swap of the blank away has a strictly lower diff
C3_OneValueAtLocalMinimum ==
    experiment = "HC" =>
        \A id \in Running :
            LET tr == trials[id] IN
            /\ tr.pc \in {"hc", "send"} => tr.sent = <<>>
            /\ tr.pc = "done" =>
                  /\ tr.sent = <<DiffN(tr.currentBoard, b1)>>
                  /\ \A nb \in BlankMoves(tr.currentBoard) :
                        DiffN(nb, b1) >= DiffN(tr.currentBoard, b1)

\* C3 witness: a climb that moved and ended at a local minimum that is not
\* the goal
C3_Witness ==
    /\ experiment = "HC"
    /\ \E id \in Running :
          /\ trials[id].pc = "done"
          /\ trials[id].moves >= 1
          /\ trials[id].sent = <<DiffN(trials[id].currentBoard, b1)>>
          /\ DiffN(trials[id].currentBoard, b1) > 0

\* the sum of the counts of the histogram d
RECURSIVE SumOver(_, _)
SumOver(d, keys) ==
    IF keys = {} THEN 0
    ELSE LET k == CHOOSE k \in keys : TRUE
         IN  d[k] + SumOver(d, keys \ {k})

Drained == launched = n /\ received = n

\* C4: when an orchestrator has drained its n values, every trial has
\* contributed exactly one histogram increment
C4_OneIncrementPerTrial ==
    Drained => \A id \in 1..n : trials[id].counted = 1

\* C5: the histogram counts always sum to the number of values received, at
\* most n, and every value counted lies in 0..size*size-1; so when the drain
\* loop ends exactly n values were received and the counts sum to n
C5_HistogramSum ==
    /\ received <= n
    /\ DOMAIN diffs = 0..(size * size - 1)
    /\ SumOver(diffs, DOMAIN diffs) = received
    /\ Drained => SumOver(diffs, DOMAIN diffs) = n

\* C5 witness: an annealing run that has drained its n values, of several
\* trials, into more than one bucket
C5_Witness ==
    /\ experiment = "SA"
    /\ n >= 2
    /\ Drained
    /\ \E v, w \in DOMAIN diffs : v # w /\ diffs[v] > 0 /\ diffs[w] > 0

\* C6: a trial that is about to send always finds room in the channel
C6_NoSendBlocks ==
    \A id \in 1..n :
        trials[id].pc \in {"send", "sendMin", "sendCur"} => CanSend

\* C7: an annealing trial sends nothing while it searches; when it ends, on
\* either path (cooled down or out of time), it sends the running minimum
\* first exactly when that is strictly below the final diff, and the final
\* diff, the diff of its final board, last
C7_EmissionOrder ==
    experiment = "SA" =>
        \A id \in Running :
            LET tr == trials[id]
                first == IF tr.minDiff < tr.currentDiff
                         THEN <<tr.minDiff>> ELSE <<>>
            IN
            /\ tr.pc = "sa" => tr.sent = <<>>
            /\ tr.pc = "sendMin" => tr.sent = <<>> /\ tr.minDiff < tr.currentDiff
            /\ tr.pc = "sendCur" => tr.sent = first
            /\ tr.pc = "done" =>
                  /\ tr.sent = first \o <<tr.currentDiff>>
                  /\ tr.currentDiff = DiffN(tr.currentBoard, params.Objective)

\* C7 witness: a trial that ran out of time before it had cooled down and
\* sent two values
C7_Witness ==
    /\ experiment = "SA"
    /\ \E id \in Running :
          /\ trials[id].pc = "done"
          /\ RatGT(trials[id].t, params.TemperatureMin)
          /\ Len(trials[id].sent) = 2
          /\ trials[id].sent[1] < trials[id].sent[2]

\* the cell of board b that holds the blank
BlankCell(b) == CHOOSE c \in Cells(b.size) : b.state[c[1]][c[2]] = 0

\* whether b is a valid board: its cells are a permutation of 0..size*size-1
ValidBoard(b) ==
    /\ b.size >= 1
    /\ {b.state[c[1]][c[2]] : c \in Cells(b.size)} = 0..(b.size * b.size - 1)

\* whether nb is b after one swap of the blank with an adjacent cell
OneBlankSwap(b, nb) ==
    LET changed == {c \in Cells(b.size) :
                       nb.state[c[1]][c[2]] # b.state[c[1]][c[2]]}
        from == BlankCell(b)
        to == BlankCell(nb)
    IN  /\ nb.size = b.size
        /\ ValidBoard(nb)
        /\ Cardinality(changed) = 2
        /\ changed = {from, to}
        /\ \/ (from[1] = to[1] /\ (from[2] - to[2]) \in {-1, 1})
           \/ (from[2] = to[2] /\ (from[1] - to[1]) \in {-1, 1})

\* FindNeighbors(0) on b gives between 2 and 4 boards, each one blank swap away
TwoToFourNeighbors(b) ==
    LET ns == FindNeighbors(b, 0)
    IN  /\ Len(ns) \in 2..4
        /\ \A k \in 1..Len(ns) : OneBlankSwap(b, ns[k])

\* C8 as stated: for every valid board, of any size, FindNeighbors(0)
\* returns between 2 and 4 boards, each one blank swap away
C8_AnySize ==
    \A id \in Running :
        ValidBoard(trials[id].currentBoard)
            => TwoToFourNeighbors(trials[id].currentBoard)

\* C8 amended: that holds for every valid board of size 2 or more; on the
\* board of size 1 the blank has no adjacent cell and FindNeighbors(0)
\* returns none
C8_SizeTwoUp ==
    \A id \in Running :
        LET b == trials[id].currentBoard IN
        /\ ValidBoard(b)
        /\ b.size >= 2 => TwoToFourNeighbors(b)
        /\ b.size = 1 => FindNeighbors(b, 0) = <<>>

\* C8 witness: a 3x3 climb that has moved the blank to the centre, where
\* FindNeighbors(0) returns 4 boards
C8_Witness ==
    \E id \in Running :
        /\ trials[id].currentBoard.size = 3
        /\ trials[id].moves >= 1
        /\ BlankCell(trials[id].currentBoard) = <<2, 2>>
        /\ Len(FindNeighbors(trials[id].currentBoard, 0)) = 4

\* C9: the diff of every board a trial holds is between 0 and size*size-1,
\* and so is every value a trial has sent and every value in the channel
C9_DiffRange ==
    LET range == 0..(size * size - 1) IN
    /\ \A id \in Running :
          /\ DiffN(trials[id].currentBoard, b1) \in range
          /\ DiffN(trials[id].b, b1) \in range
          /\ \A k \in 1..Len(trials[id].sent) : trials[id].sent[k] \in range
    /\ \A k \in 1..Len(ch) : ch[k].val \in range

\* C9 witness: a 3x3 trial that has sent the largest diff, 8
C9_Witness ==
    /\ size = 3
    /\ \E id \in Running :
          /\ trials[id].pc = "done"
          /\ trials[id].sent = <<8>>
          /\ DiffN(trials[id].currentBoard, b1) = size * size - 1

\* whether the draw r is below exp(-d/temp), for d >= 0 and temp > 0: the
\* draw 0 always is, and exp(-a/b) is when a/b > d/temp
BelowMetropolis(r, d, temp) ==
    r[2] = 0 \/ RatGT(r, <<d * temp[2], temp[1]>>)

\* C10: AcceptCandidate accepts whenever the candidate diff is lower; never
\* accepts a candidate that is not lower at temperature 0; and, at a positive
\* temperature, accepts a candidate that is not lower exactly when the draw is
\* below exp(-(candidate-current)/temp), which is certain for an equal candidate
C10_Metropolis ==
    call # NoCall =>
        LET d == call.candidate - call.current
            hot == RatGT(call.temp, <<0, 1>>)
        IN
        /\ call.candidate < call.current => call.result
        /\ (call.temp[1] = 0 /\ call.candidate >= call.current) => ~call.result
        /\ (hot /\ call.candidate = call.current) => call.result
        /\ (hot /\ call.candidate > call.current)
              => (call.result <=> BelowMetropolis(call.r, d, call.temp))

\* C10 witness: a worse candidate accepted at a positive temperature
C10_Witness ==
    /\ call # NoCall
    /\ call.candidate > call.current
    /\ RatGT(call.temp, <<0, 1>>)
    /\ call.r[2] # 0
    /\ call.result

\* C11: a trial whose start board leaves the blank no adjacent cell (the
\* neighbour lookup yields nothing) never fails: it keeps its board and, when
\* it ends, has sent the diff of that board last
C11_NoNeighborNoError ==
    \A id \in 1..n :
        LET tr == trials[id] IN
        (/\ tr.pc # "idle"
         /\ tr.b.size = b1.size
         /\ FindNeighbors(tr.b, 0) = <<>>)
        => /\ tr.pc # "panic"
           /\ tr.currentBoard = tr.b
           /\ tr.pc = "done" =>
                 /\ tr.sent # <<>>
                 /\ tr.sent[Len(tr.sent)] = DiffN(tr.b, b1)

(***************************************************************************)
(* One trial whose start board need not have the size of the objective:    *)
(* the orchestrators always build both with one size (main.go:259-261,     *)
(* 293-305), so this is the configuration error of a caller that does not. *)
(***************************************************************************)
SmallBoards == UNION {AllBoards(s) : s \in SmallSizes}

NextMismatch ==
    \/ Launch(SmallBoards)
    \/ \E id \in 1..n : HCIter(id)
    \/ \E id \in 1..n : HCSend(id)
    \/ \E id \in 1..n : SAIter(id)
    \/ \E id \in 1..n : SACool(id)
    \/ \E id \in 1..n : SASendMin(id)
    \/ \E id \in 1..n : SASendCur(id)
    \/ Receive
    \/ Exit

SpecMismatch == InitTrial /\ [][NextMismatch]_vars

\* the trial was started on a board of another size than the target
Mismatched(tr) == tr.pc # "idle" /\ tr.b.size # b1.size

\* C12: a trial whose start board and target differ in size aborts in DiffN
\* before any cell is compared: it makes no move, computes no diff and sends
\* nothing, so the results channel stays empty
C12_MismatchFatal ==
    \A id \in 1..n :
        LET tr == trials[id] IN
        Mismatched(tr) =>
            /\ tr.pc \in {"hc", "panic"}
            /\ tr.sent = <<>>
            /\ tr.moves = 0
            /\ tr.currentBoard = tr.b
            /\ tr.currentDiff = Idle.currentDiff
            /\ ch = <<>>
            /\ received = 0

C12_Witness ==
    /\ experiment = "HC"
    /\ size = 2
    /\ Mismatched(trials[1])
    /\ trials[1].pc = "panic"

\* C14: a hill climb started one swap of the blank away from the canonical
\* target makes exactly one move, onto the target, and reports diff 0
C14_OneMoveToGoal ==
    experiment = "HC" =>
        \A id \in Running :
            LET tr == trials[id] IN
            (b1 = NewBoard(size) /\ tr.b \in BlankMoves(b1)) =>
                /\ tr.pc = "hc" =>
                      \/ tr.moves = 0 /\ tr.currentBoard = tr.b
                      \/ tr.moves = 1 /\ tr.currentBoard = b1
                /\ tr.pc \in {"send", "done"} =>
                      /\ tr.moves = 1
                      /\ tr.currentBoard = b1
                      /\ tr.currentDiff = 0
                /\ tr.pc = "done" => tr.sent = <<0>>

\* C14 witness: the climb from [[1,0],[2,3]] has ended, and so has one on a
\* 3x3 board whose blank had to move up
C14_Witness ==
    /\ experiment = "HC"
    /\ \E id \in Running :
          /\ trials[id].pc = "done"
          /\ trials[id].sent = <<0>>
          /\ trials[id].moves = 1
          /\ \/ trials[id].b = [size |-> 2, state |-> <<<<1, 0>>, <<2, 3>>>>]
             \/ trials[id].b = [size |-> 3, state |->
                                   <<<<3, 1, 2>>, <<0, 4, 5>>, <<6, 7, 8>>>>]

\* the value MinDiffHC sends when started on board b with the given target:
\* its loop run to the end as a function of b alone
RECURSIVE HCResult(_, _)
HCResult(b, target) ==
    LET best == HCScan(FindNeighbors(b, 0), target, 1,
                       [nextBoard |-> Nil, h |-> MaxInt32])
        currentH == DiffN(b, target)
    IN  IF HCStops(best.h, currentH) THEN currentH
        ELSE HCResult(best.nextBoard, target)

\* C15: the histogram a drained hill-climb run ends with is determined by the
\* start boards alone: whatever the interleaving of the trials and the drain
\* loop, bucket v counts the trials whose climb from their start board ends
\* at diff v
C15_HistogramOrderFree ==
    (experiment = "HC" /\ Drained) =>
        \A v \in DOMAIN diffs :
            diffs[v] = Cardinality({id \in 1..n : HCResult(trials[id].b, b1) = v})

\* C15 witness: a drained hill-climb run whose trials, from different start
\* boards, ended at different diffs
C15_Witness ==
    /\ experiment = "HC"
    /\ Drained
    /\ \E i, j \in 1..n :
          /\ trials[i].b # trials[j].b
          /\ HCResult(trials[i].b, b1) # HCResult(trials[j].b, b1)
          /\ diffs[HCResult(trials[i].b, b1)] >= 1
          /\ diffs[HCResult(trials[j].b, b1)] >= 1

\* the direction the blank went from board b to its neighbour nb:
\* 1 up, 2 down, 3 left, 4 right
Direction(b, nb) ==
    LET from == BlankCell(b)
        to == BlankCell(nb)
    IN  IF to = <<from[1] - 1, from[2]>> THEN 1
        ELSE IF to = <<from[1] + 1, from[2]>> THEN 2
        ELSE IF to = <<from[1], from[2] - 1>> THEN 3
        ELSE IF to = <<from[1], from[2] + 1>> THEN 4
        ELSE 0

\* the index of the first candidate whose diff is the least of all
FirstMinimal(candidates, target) ==
    CHOOSE k \in 1..Len(candidates) :
        /\ \A j \in 1..Len(candidates) :
              DiffN(candidates[k], target) <= DiffN(candidates[j], target)
        /\ \A j \in 1..(k - 1) :
              DiffN(candidates[j], target) > DiffN(candidates[k], target)

\* the neighbour and diff MinDiffHC's scan settles on for the board of trial tr
Chosen(tr) ==
    HCScan(FindNeighbors(tr.currentBoard, 0), b1, 1,
           [nextBoard |-> Nil, h |-> MaxInt32])

\* the hill-climb trials that are at the head of their loop with neighbours
\* to scan
Scanning ==
    {id \in Running : /\ experiment = "HC"
                      /\ trials[id].pc = "hc"
                      /\ trials[id].currentBoard.size = b1.size
                      /\ FindNeighbors(trials[id].currentBoard, 0) # <<>>}

\* C16: at every step of a hill climb the neighbours are generated in the
\* order up, down, left, right, and the scan settles on the first of them
\* whose diff is the least; a later one of equal diff does not replace it
C16_FirstMinimalWins ==
    \A id \in Scanning :
        LET candidates == FindNeighbors(trials[id].currentBoard, 0)
            first == FirstMinimal(candidates, b1)
        IN  /\ \A k \in 1..Len(candidates) :
                  /\ Direction(trials[id].currentBoard, candidates[k]) # 0
                  /\ \A j \in 1..(k - 1) :
                        Direction(trials[id].currentBoard, candidates[j])
                            < Direction(trials[id].currentBoard, candidates[k])
            /\ Chosen(trials[id]).nextBoard = candidates[first]
            /\ Chosen(trials[id]).h = DiffN(candidates[first], b1)

\* C16 witness: a 3x3 climb whose blank has four neighbours, the least diff
\* being shared by the second and a later one
C16_Witness ==
    \E id \in Scanning :
        LET candidates == FindNeighbors(trials[id].currentBoard, 0)
            first == FirstMinimal(candidates, b1)
        IN  /\ Len(candidates) = 4
            /\ first = 2
            /\ \E j \in 3..4 :
                  DiffN(candidates[j], b1) = DiffN(candidates[first], b1)

\* C18: in an annealing trial the running minimum never exceeds the current
\* diff, and it is the least of the diffs of the start board and of every
\* candidate generated so far (trials[id].seen), accepted or not
C18_RunningMinimum ==
    experiment = "SA" =>
        \A id \in Running :
            LET tr == trials[id] IN
            /\ tr.minDiff <= tr.currentDiff
            /\ DiffN(tr.b, params.Objective) \in tr.seen
            /\ tr.currentDiff \in tr.seen
            /\ tr.minDiff \in tr.seen
            /\ \A d \in tr.seen : tr.minDiff <= d

\* C18 witness: a trial that generated a candidate below its running minimum,
\* did not stay on it, and later was on a board of higher diff
C18_Witness ==
    /\ experiment = "SA"
    /\ \E id \in Running :
          LET tr == trials[id] IN
          /\ Cardinality(tr.seen) >= 3
          /\ tr.minDiff < DiffN(tr.b, params.Objective)
          /\ tr.minDiff < tr.currentDiff

(***************************************************************************)
(* DiffN called on its own, on valid boards of one size: every pair of     *)
(* boards of sizes 1 and 2, and for size 3 every board against itself, the *)
(* canonical board and the boards one swap of the blank away.              *)
(***************************************************************************)
DiffNTargets(b) ==
    IF b.size \in SmallSizes THEN AllBoards(b.size)
    ELSE {b, NewBoard(b.size)}
         \cup {FindNeighbors(b, 0)[k] : k \in 1..Len(FindNeighbors(b, 0))}

\* one call per behaviour
CallDiffN ==
    /\ call = NoCall
    /\ \E s \in Sizes :
          \E b \in AllBoards(s) :
             \E target \in DiffNTargets(b) :
                /\ ~DiffNPanics(b, target)
                /\ call' = [fn |-> "DiffN", b |-> b, target |-> target,
                            result |-> DiffN(b, target)]
    /\ UNCHANGED <<mem, experiment, size, n, b1, params, ch, diffs, launched,
                   received, trials>>

InitDiffN == InitRun("HC", 1, 1, SAParams(NewBoard(1), 0, 0))

NextDiffN == CallDiffN

SpecDiffN == InitDiffN /\ [][NextDiffN]_vars

\* C20: on valid boards of one size DiffN returns 0 exactly when the two
\* boards have identical cells, although the receiver's blank cell is not
\* compared; in particular DiffN(B, B) = 0
C20_ZeroIffEqual ==
    call.fn = "DiffN" =>
        /\ call.result = 0 <=> call.b = call.target
        /\ call.b = call.target => call.result = 0
        /\ call.result \in 0..(call.b.size * call.b.size - 1)

\* C20 witness: DiffN returned 0 on a 3x3 board that is not the canonical one
C20_Witness ==
    /\ call.fn = "DiffN"
    /\ call.result = 0
    /\ call.b.size = 3
    /\ call.b = call.target
    /\ call.b # NewBoard(3)

(***************************************************************************)
(* The boards of one search on the heap: the target and a random start     *)
(* board are built, the search moves, and a caller copies a board and      *)
(* writes to the copy.                                                     *)
(***************************************************************************)
InitHeap == InitRun("HC", 1, 1, SAParams(NewBoard(1), 0, 0))

NextHeap ==
    \/ HeapSetup
    \/ HeapHCIter
    \/ HeapSAIter
    \/ HeapCopyCall
    \/ HeapWrite

SpecHeap == InitHeap /\ [][NextHeap]_vars

\* C13: no step changes the contents of a board that exists, other than the
\* copy its caller is writing to: the start board and the target stay as
\* they were built, the original of a copy is untouched by writes to the
\* copy, FindNeighbors leaves its receiver as it was, and a move binds the
\* current board to a board allocated by that step
C13_NoBoardMutated ==
    [][/\ \A p \in 1..Len(mem.boards) :
             /\ mem'.boards[p] = mem.boards[p]
             /\ (p # mem.scratch \/ mem'.scratch # mem.scratch)
                   => View(mem', p) = View(mem, p)
       /\ mem.target # 0 =>
             /\ mem'.target = mem.target
             /\ mem'.start = mem.start
             /\ mem'.current # mem.current
                   => /\ mem'.current > Len(mem.boards)
                      /\ View(mem', mem'.current)
                             \in BlankMoves(View(mem, mem.current))
      ]_vars

\* C13 witness: the search has moved off a start board built by
\* NewBoardRand, and a copy has been written to and differs from its
\* original
C13_Witness ==
    /\ mem.target # 0
    /\ mem.boards[mem.start].size = 2
    /\ mem.current # mem.start
    /\ View(mem, mem.current) # View(mem, mem.start)
    /\ mem.scratch # 0
    /\ View(mem, mem.scratch) # View(mem, mem.scratchOf)

(***************************************************************************)
(* The run of an orchestrator under fair scheduling: the Go scheduler lets *)
(* every goroutine that can take a step take one eventually, the main      *)
(* goroutine included.                                                     *)
(***************************************************************************)
TrialStep(id) ==
    \/ HCIter(id)
    \/ HCSend(id)
    \/ SAIter(id)
    \/ SACool(id)
    \/ SASendMin(id)
    \/ SASendCur(id)

MainStep ==
    \/ Launch(SampleBoards(size))
    \/ Receive
    \/ Exit

FairSpec ==
    /\ Init
    /\ [][Next]_vars
    /\ WF_vars(MainStep)
    /\ \A id \in 1..NTrials : WF_vars(TrialStep(id))

\* the runs the annealing trials of which cannot come through: on the 1x1
\* board the first neighbour lookup fails
NoNeighbors == experiment = "SA" /\ size = 1

\* C17: under fair scheduling every trial of either orchestrator (annealing
\* on boards of size 2 and more) eventually ends having sent at least one
\* value, and the orchestrator eventually has received its n values
C17_AllTrialsEmit ==
    <>(\/ NoNeighbors
       \/ /\ Drained
          /\ \A id \in 1..n : trials[id].sent # <<>>)

\* the drain loop on its own: the n receives eventually complete
DrainEnds == <>(NoNeighbors \/ Drained)

\* C19: under fair scheduling every trial of RunSimAnneal (on boards of size
\* 2 and more) eventually has completed all its sends and returned
C19_AllTrialsReturn ==
    <>((experiment = "SA" /\ ~NoNeighbors) =>
          \A id \in 1..n : trials[id].pc = "done")

====
